---- MODULE Spec2Model ----
(***************************************************************************)
(* arq-simul: a discrete-event simulator of stop-and-wait / sliding-window *)
(* ARQ over one point-to-point link.                                       *)
(*                                                                         *)
(* The model follows src/main.rs (the driver loop), src/simulator.rs (the  *)
(* event order and the queue), src/simulator/network.rs (the topology and  *)
(* the dispatch), src/simulator/network/terminal.rs (the ARQ terminal),    *)
(* src/simulator/network/link.rs (the link) and                            *)
(* src/simulator/network/link/datacounter.rs (the byte counters).          *)
(*                                                                         *)
(* Time is eee_hyst::Time, an integer number of time units.  Probabilities *)
(* are fixed-point numbers with denominator Unit.                          *)
(***************************************************************************)
EXTENDS Integers, Sequences, FiniteSets, Bags, TLC

(***************************************************************************)
(* Bounds of the model.                                                    *)
(***************************************************************************)
\* Largest transmit window (main.rs: --wsize, u16).
MaxWindow == 3
\* Largest header length in bytes (main.rs: --header).
MaxHeader == 1
\* Largest payload length in bytes (main.rs: --payload).
MaxPayload == 2
\* Largest propagation delay in time units (main.rs: --prop_delay).
MaxDelay == 1
\* Simulation duration in time units (main.rs: --duration).
Duration == 12

(***************************************************************************)
(* Inputs of the program that the model fixes.                             *)
(***************************************************************************)
\* Link capacity in bits per time unit (main.rs: --capacity, > 0).
Capacity == 8
\* Denominator of the fixed-point probabilities: Unit stands for 1.0.
Unit == 4

Windows == 1..MaxWindow
HeaderSizes == 0..MaxHeader
PayloadSizes == 0..MaxPayload
Delays == 0..MaxDelay
\* Bit error rates 0.0, 0.5 and 1.0 (main.rs:87 accepts the closed range).
BitErrorRates == {0, Unit \div 2, Unit}
\* The values rand's gen::<f64>() can return: the half-open range [0, 1).
Draws == 0..(Unit - 1)

Max(a, b) == IF a >= b THEN a ELSE b

(***************************************************************************)
(* Packets and events (packet.rs, simulator.rs).                           *)
(***************************************************************************)
Packet(seqno, header_size, payload_size, src_addr, dst_addr) ==
    [seqno |-> seqno, header_size |-> header_size, payload_size |-> payload_size,
     src_addr |-> src_addr, dst_addr |-> dst_addr]

\* The seeds of the runs (main.rs:58-60, --seed).
Seeds == {1}

\* Simulator::from_seed: the state of the generator is a function of the seed.
from_seed(seed) == seed

\* Placeholder of the packet field of a Timeout, which carries no packet.
NoPacket == Packet(0, 0, 0, 0, 0)

Payload(packet) == [tag |-> "Payload", packet |-> packet, seqno |-> 0]

Timeout(seqno) == [tag |-> "Timeout", packet |-> NoPacket, seqno |-> seqno]

Event(due_time, target, kind) ==
    [due_time |-> due_time, target |-> target, kind |-> kind]

\* weigth with the Timeout lighter than the Payload.
weigth_timeout_first(kind) == IF kind.tag = "Payload" THEN 1 ELSE 0

\* EventKind::weigth
weigth(kind) == IF kind.tag = "Payload" THEN 0 ELSE 1

\* Ord::cmp of the integers.
IntCmp(a, b) == IF a < b THEN "Less" ELSE IF a > b THEN "Greater" ELSE "Equal"

\* impl Ord for EventKind
EventKindCmp(self, other) == IntCmp(weigth(self), weigth(other))

\* Ord for Event with the kinds compared the natural way round.
EventCmp_kind_not_reversed(self, other) ==
    LET first == IntCmp(other.due_time, self.due_time)
    IN  IF first # "Equal" THEN first ELSE EventKindCmp(self.kind, other.kind)

\* impl Ord for Event: both comparisons are taken with the operands swapped.
EventCmp(self, other) ==
    LET first == IntCmp(other.due_time, self.due_time)
    IN  IF first # "Equal" THEN first ELSE EventKindCmp(other.kind, self.kind)

(***************************************************************************)
(* Targets (simulator.rs: enum Target).                                    *)
(***************************************************************************)
TargetLink(addr) == [tag |-> "Link", addr |-> addr]

TargetTerminal(addr) == [tag |-> "Terminal", addr |-> addr]

(***************************************************************************)
(* Byte counters of the link (link/datacounter.rs).                        *)
(***************************************************************************)
raw(packet) == packet.header_size + packet.payload_size

good(packet) == packet.payload_size

\* DataCounter::default
DataCounterDefault ==
    [raw_transmitted |-> 0, good_transmitted |-> 0,
     raw_delivered |-> 0, good_delivered |-> 0]

transmitted_packet(self, packet) ==
    [self EXCEPT !.raw_transmitted = self.raw_transmitted + raw(packet),
                 !.good_transmitted = self.good_transmitted + good(packet)]

\* delivered_packet that counts on from the bytes that entered the link
\* instead of from the bytes delivered so far.
delivered_packet_from_entered(self, packet) ==
    [self EXCEPT !.raw_delivered = self.raw_transmitted + raw(packet),
                 !.good_delivered = self.good_transmitted + good(packet)]

delivered_packet(self, packet) ==
    [self EXCEPT !.raw_delivered = self.raw_delivered + raw(packet),
                 !.good_delivered = self.good_delivered + good(packet)]

(***************************************************************************)
(* The link (link.rs).                                                     *)
(***************************************************************************)
\* Link::create followed by Link::attach_nodes
attach_nodes(capacity, propagation_delay, bit_error_rate, src_addr, dst_addr) ==
    [src_addr |-> src_addr, dst_addr |-> dst_addr, capacity |-> capacity,
     propagation_delay |-> propagation_delay, bit_error_rate |-> bit_error_rate,
     last_tx_from_src |-> 0, last_tx_from_dst |-> 0,
     counter |-> DataCounterDefault]

\* f64::powi on fixed-point numbers; products are rounded up, so that a base
\* strictly between 0 and 1 keeps a power strictly between 0 and 1, as it
\* does in f64 for the packet sizes of the model.
RECURSIVE powi(_, _)
powi(x, n) ==
    IF n = 0 THEN Unit ELSE (x * powi(x, n - 1) + Unit - 1) \div Unit

\* drop_packet with the comparison turned around.
drop_packet_inverted(self, packet, u) ==
    LET bit_size == 8 * (packet.header_size + packet.payload_size)
        prob_tx == powi(Unit - self.bit_error_rate, bit_size)
    IN  u < prob_tx

\* AttachedLink::drop_packet; u is the value drawn by gen::<f64>().
drop_packet(self, packet, u) ==
    LET bit_size == 8 * (packet.header_size + packet.payload_size)
        prob_tx == powi(Unit - self.bit_error_rate, bit_size)
    IN  u > prob_tx

\* AttachedLink::tx; Time::from_secs keeps whole time units.
tx(self, packet) ==
    (8 * (packet.header_size + packet.payload_size)) \div self.capacity

\* calc_timeout that adds the serialization time of the packet itself.
calc_timeout_with_packet_time(self, packet) ==
    tx(self, packet) + tx(self, [packet EXCEPT !.payload_size = 0])
        + self.propagation_delay + self.propagation_delay

\* AttachedLink::calc_timeout
calc_timeout(self, packet) ==
    tx(self, [packet EXCEPT !.payload_size = 0])
        + self.propagation_delay + self.propagation_delay

\* AttachedLink::process that hands the packet on without the propagation
\* delay.
LinkProcess_without_delay(self, event, now, u) ==
    LET packet == event.kind.packet
        entered == [self EXCEPT !.counter = transmitted_packet(self.counter, packet)]
    IN  IF drop_packet(entered, packet, u)
        THEN [self |-> entered, res |-> <<>>]
        ELSE [self |-> [entered EXCEPT
                          !.counter = delivered_packet(entered.counter, packet)],
              res |-> <<Event(now, TargetTerminal(packet.dst_addr),
                              Payload(packet))>>]

\* AttachedLink::process that counts a dropped packet as delivered.
LinkProcess_counts_dropped(self, event, now, u) ==
    LET packet == event.kind.packet
        entered == [self EXCEPT !.counter = transmitted_packet(self.counter, packet)]
        left == [entered EXCEPT
                   !.counter = delivered_packet(entered.counter, packet)]
    IN  IF drop_packet(entered, packet, u)
        THEN [self |-> left, res |-> <<>>]
        ELSE [self |-> left,
              res |-> <<Event(now + self.propagation_delay,
                              TargetTerminal(packet.dst_addr),
                              Payload(packet))>>]

\* AttachedLink::process on a Payload event; a Timeout event panics.
LinkProcess(self, event, now, u) ==
    LET packet == event.kind.packet
        entered == [self EXCEPT !.counter = transmitted_packet(self.counter, packet)]
    IN  IF drop_packet(entered, packet, u)
        THEN [self |-> entered, res |-> <<>>]
        ELSE [self |-> [entered EXCEPT
                          !.counter = delivered_packet(entered.counter, packet)],
              res |-> <<Event(now + self.propagation_delay,
                              TargetTerminal(packet.dst_addr),
                              Payload(packet))>>]

(***************************************************************************)
(* The terminal (terminal.rs).                                             *)
(***************************************************************************)
\* Terminal::create followed by Terminal::attach_to_link
attach_to_link(header_size, payload_size, tx_window, self_addr, link_addr) ==
    [addr |-> self_addr, link_addr |-> link_addr,
     header_size |-> header_size, payload_size |-> payload_size,
     tx_window |-> tx_window,
     last_acked |-> 0, last_sent |-> tx_window, last_recv |-> 0,
     last_tx_sched |-> 0]

\* AttachedTerminal::get_dst_address
get_dst_address(self, link) ==
    IF self.addr = link.src_addr THEN link.dst_addr ELSE link.src_addr

\* start with every Timeout due one time unit after now.
start_without_stagger(self, now) ==
    [seqno \in 1..self.last_sent |->
        Event(now + 1, TargetTerminal(self.addr), Timeout(seqno))]

\* AttachedTerminal::start
start(self, now) ==
    [seqno \in 1..self.last_sent |->
        Event(now + seqno, TargetTerminal(self.addr), Timeout(seqno))]

\* advance_delivery_time of a terminal without an output queue: the packet
\* starts at now, whatever the terminal is still sending.
advance_delivery_time_without_queue(self, link, packet, now) ==
    LET tx_time == tx(link, packet)
        sched == now + tx_time
    IN  [self |-> [self EXCEPT !.last_tx_sched = sched], time |-> sched]

\* advance_delivery_time without the max with now: the packet is queued
\* behind the last one even when that one left long ago.
advance_delivery_time_without_max(self, link, packet, now) ==
    LET tx_time == tx(link, packet)
        sched == self.last_tx_sched + tx_time
    IN  [self |-> [self EXCEPT !.last_tx_sched = sched], time |-> sched]

\* AttachedTerminal::advance_delivery_time
advance_delivery_time(self, link, packet, now) ==
    LET tx_time == tx(link, packet)
        sched == Max(now, self.last_tx_sched) + tx_time
    IN  [self |-> [self EXCEPT !.last_tx_sched = sched], time |-> sched]

\* transmit that addresses the timer, like the packet, to the link.
transmit_timer_at_link(self, seqno, dst_addr, now, payload_size, link) ==
    LET p == Packet(seqno, self.header_size, payload_size, self.addr, dst_addr)
        adv == advance_delivery_time(self, link, p, now)
        delivery_time == adv.time
        timer == IF payload_size > 0
                 THEN <<Event(delivery_time + calc_timeout(link, p),
                              TargetLink(self.link_addr), Timeout(seqno))>>
                 ELSE <<>>
    IN  [self |-> adv.self,
         res |-> timer \o <<Event(delivery_time, TargetLink(self.link_addr),
                                  Payload(p))>>]

\* transmit that arms no timer for a DATA packet either.
transmit_without_timer(self, seqno, dst_addr, now, payload_size, link) ==
    LET p == Packet(seqno, self.header_size, payload_size, self.addr, dst_addr)
        adv == advance_delivery_time(self, link, p, now)
    IN  [self |-> adv.self,
         res |-> <<Event(adv.time, TargetLink(self.link_addr), Payload(p))>>]

\* transmit that arms a timer for every packet, an ACK too.
transmit_always_arms_timer(self, seqno, dst_addr, now, payload_size, link) ==
    LET p == Packet(seqno, self.header_size, payload_size, self.addr, dst_addr)
        adv == advance_delivery_time(self, link, p, now)
    IN  [self |-> adv.self,
         res |-> <<Event(adv.time + calc_timeout(link, p),
                         TargetTerminal(self.addr), Timeout(seqno)),
                   Event(adv.time, TargetLink(self.link_addr), Payload(p))>>]

\* AttachedTerminal::transmit
transmit(self, seqno, dst_addr, now, payload_size, link) ==
    LET p == Packet(seqno, self.header_size, payload_size, self.addr, dst_addr)
        adv == advance_delivery_time(self, link, p, now)
        delivery_time == adv.time
        timer == IF payload_size > 0
                 THEN <<Event(delivery_time + calc_timeout(link, p),
                              TargetTerminal(self.addr), Timeout(seqno))>>
                 ELSE <<>>
    IN  [self |-> adv.self,
         res |-> timer \o <<Event(delivery_time, TargetLink(self.link_addr),
                                  Payload(p))>>]

\* process_timeout without the test of last_acked: every timer retransmits.
process_timeout_always_retransmits(self, dst_addr, seqno, now, link) ==
    transmit(self, seqno, dst_addr, now, self.payload_size, link)

\* process_timeout that sends the packet at the upper end of the window
\* instead of the one whose timer fired.
process_timeout_resends_last_sent(self, dst_addr, seqno, now, link) ==
    IF seqno > self.last_acked
    THEN transmit(self, self.last_sent, dst_addr, now, self.payload_size, link)
    ELSE [self |-> self, res |-> <<>>]

\* AttachedTerminal::process_timeout
process_timeout(self, dst_addr, seqno, now, link) ==
    IF seqno > self.last_acked
    THEN transmit(self, seqno, dst_addr, now, self.payload_size, link)
    ELSE [self |-> self, res |-> <<>>]

\* The iterator of process_ack: transmit every seqno of first..=last in
\* order, each on the terminal as the transmit before it left it.  The
\* result one of a transmit is bound as a value, so that it is computed once.
RECURSIVE transmit_range(_, _, _, _, _, _)
transmit_range(self, first, last, dst_addr, now, link) ==
    IF first > last
    THEN [self |-> self, res |-> <<>>]
    ELSE CHOOSE all \in
             {LET rest == transmit_range(one.self, first + 1, last, dst_addr,
                                         now, link)
              IN  [self |-> rest.self, res |-> one.res \o rest.res] :
                 one \in {transmit(self, first, dst_addr, now,
                                   self.payload_size, link)}} : TRUE

\* process_ack that sends the whole new window, the packets already sent
\* included.
process_ack_resends_window(self, packet, now, link) ==
    IF packet.seqno > self.last_acked /\ packet.seqno <= self.last_sent
    THEN LET acked == [self EXCEPT !.last_acked = packet.seqno]
             sent == transmit_range(acked, acked.last_acked + 1,
                                    acked.last_acked + acked.tx_window,
                                    packet.src_addr, now, link)
         IN  [self |-> [sent.self EXCEPT
                          !.last_sent = sent.self.last_acked + sent.self.tx_window],
              res |-> sent.res]
    ELSE [self |-> self, res |-> <<>>]

\* process_ack that slides the upper end of the window by one for each
\* accepted ACK, whatever the number of packets the ACK acknowledges.
process_ack_slides_by_one(self, packet, now, link) ==
    IF packet.seqno > self.last_acked /\ packet.seqno <= self.last_sent
    THEN LET acked == [self EXCEPT !.last_acked = packet.seqno]
             sent == transmit_range(acked, acked.last_sent + 1,
                                    acked.last_sent + 1,
                                    packet.src_addr, now, link)
         IN  [self |-> [sent.self EXCEPT !.last_sent = sent.self.last_sent + 1],
              res |-> sent.res]
    ELSE [self |-> self, res |-> <<>>]

\* process_ack with the new last_sent counted from the old last_sent instead
\* of from last_acked.
process_ack_slides_from_last_sent(self, packet, now, link) ==
    IF packet.seqno > self.last_acked /\ packet.seqno <= self.last_sent
    THEN LET acked == [self EXCEPT !.last_acked = packet.seqno]
             sent == transmit_range(acked, acked.last_sent + 1,
                                    acked.last_sent + acked.tx_window,
                                    packet.src_addr, now, link)
         IN  [self |-> [sent.self EXCEPT
                          !.last_sent = sent.self.last_sent + sent.self.tx_window],
              res |-> sent.res]
    ELSE [self |-> self, res |-> <<>>]

\* process_ack without the lower end of the window test: a stale ACK is
\* accepted.
process_ack_accepts_stale(self, packet, now, link) ==
    IF packet.seqno <= self.last_sent
    THEN LET acked == [self EXCEPT !.last_acked = packet.seqno]
             sent == transmit_range(acked, acked.last_sent + 1,
                                    acked.last_acked + acked.tx_window,
                                    packet.src_addr, now, link)
         IN  [self |-> [sent.self EXCEPT
                          !.last_sent = sent.self.last_acked + sent.self.tx_window],
              res |-> sent.res]
    ELSE [self |-> self, res |-> <<>>]

\* process_ack that sends one new packet for each accepted ACK, whatever the
\* number of packets the ACK acknowledges.
process_ack_sends_one(self, packet, now, link) ==
    IF packet.seqno > self.last_acked /\ packet.seqno <= self.last_sent
    THEN LET acked == [self EXCEPT !.last_acked = packet.seqno]
             sent == transmit_range(acked, acked.last_sent + 1,
                                    acked.last_sent + 1,
                                    packet.src_addr, now, link)
         IN  [self |-> [sent.self EXCEPT
                          !.last_sent = sent.self.last_acked + sent.self.tx_window],
              res |-> sent.res]
    ELSE [self |-> self, res |-> <<>>]

\* process_ack that takes an ACK outside the window for a request to send the
\* first unacknowledged packet again.
process_ack_resends_on_refusal(self, packet, now, link) ==
    IF packet.seqno > self.last_acked /\ packet.seqno <= self.last_sent
    THEN LET acked == [self EXCEPT !.last_acked = packet.seqno]
             sent == transmit_range(acked, acked.last_sent + 1,
                                    acked.last_acked + acked.tx_window,
                                    packet.src_addr, now, link)
         IN  [self |-> [sent.self EXCEPT
                          !.last_sent = sent.self.last_acked + sent.self.tx_window],
              res |-> sent.res]
    ELSE transmit(self, self.last_acked + 1, packet.src_addr, now,
                  self.payload_size, link)

\* AttachedTerminal::process_ack
process_ack(self, packet, now, link) ==
    IF packet.seqno > self.last_acked /\ packet.seqno <= self.last_sent
    THEN LET acked == [self EXCEPT !.last_acked = packet.seqno]
             sent == transmit_range(acked, acked.last_sent + 1,
                                    acked.last_acked + acked.tx_window,
                                    packet.src_addr, now, link)
         IN  [self |-> [sent.self EXCEPT
                          !.last_sent = sent.self.last_acked + sent.self.tx_window],
              res |-> sent.res]
    ELSE [self |-> self, res |-> <<>>]

\* process_data whose ACK acknowledges a whole window ahead of the packet it
\* answers.
process_data_acks_window_ahead(self, packet, now, link) ==
    IF packet.seqno <= self.last_recv + 1
    THEN transmit([self EXCEPT !.last_recv = Max(self.last_recv, packet.seqno)],
                  packet.seqno + self.tx_window, packet.src_addr, now, 0, link)
    ELSE [self |-> self, res |-> <<>>]

\* process_data that answers the next expected packet only: a packet it
\* already has is not acknowledged again.
process_data_ignores_duplicates(self, packet, now, link) ==
    IF packet.seqno = self.last_recv + 1
    THEN transmit([self EXCEPT !.last_recv = Max(self.last_recv, packet.seqno)],
                  packet.seqno, packet.src_addr, now, 0, link)
    ELSE [self |-> self, res |-> <<>>]

\* process_data whose ACK carries the seqno of the next packet it expects.
process_data_acks_next_expected(self, packet, now, link) ==
    IF packet.seqno <= self.last_recv + 1
    THEN transmit([self EXCEPT !.last_recv = Max(self.last_recv, packet.seqno)],
                  Max(self.last_recv, packet.seqno) + 1, packet.src_addr, now,
                  0, link)
    ELSE [self |-> self, res |-> <<>>]

\* process_data that also takes the packet after the next expected one.
process_data_accepts_gap(self, packet, now, link) ==
    IF packet.seqno <= self.last_recv + 2
    THEN transmit([self EXCEPT !.last_recv = Max(self.last_recv, packet.seqno)],
                  packet.seqno, packet.src_addr, now, 0, link)
    ELSE [self |-> self, res |-> <<>>]

\* process_data that stores the seqno of the packet instead of the maximum.
process_data_without_max(self, packet, now, link) ==
    IF packet.seqno <= self.last_recv + 1
    THEN transmit([self EXCEPT !.last_recv = packet.seqno],
                  packet.seqno, packet.src_addr, now, 0, link)
    ELSE [self |-> self, res |-> <<>>]

\* process_data whose ACK carries last_recv instead of the seqno of the
\* packet it answers.
process_data_acks_last_recv(self, packet, now, link) ==
    IF packet.seqno <= self.last_recv + 1
    THEN transmit([self EXCEPT !.last_recv = Max(self.last_recv, packet.seqno)],
                  Max(self.last_recv, packet.seqno), packet.src_addr, now, 0, link)
    ELSE [self |-> self, res |-> <<>>]

\* AttachedTerminal::process_data
process_data(self, packet, now, link) ==
    IF packet.seqno <= self.last_recv + 1
    THEN transmit([self EXCEPT !.last_recv = Max(self.last_recv, packet.seqno)],
                  packet.seqno, packet.src_addr, now, 0, link)
    ELSE [self |-> self, res |-> <<>>]

\* AttachedTerminal::process
TerminalProcess(self, event, now, link) ==
    IF event.kind.tag = "Payload"
    THEN IF event.kind.packet.payload_size = 0
         THEN process_ack(self, event.kind.packet, now, link)
         ELSE process_data(self, event.kind.packet, now, link)
    ELSE process_timeout(self, get_dst_address(self, link), event.kind.seqno,
                         now, link)

\* AttachedTerminal::get_transmitted_packets
get_transmitted_packets(self) == self.last_acked

(***************************************************************************)
(* The network (network.rs).                                               *)
(***************************************************************************)
Element(addr, tag, body) == [addr |-> addr, class |-> [tag |-> tag, body |-> body]]

\* Network::add_link_and_terminals on an empty network: the two terminals get
\* the addresses 0 and 1 and the link the address 2.
add_link_and_terminals(orig, dst, link) ==
    LET addr_orig == 0
        addr_dst == addr_orig + 1
        link_addr == addr_dst + 1
    IN  [elements |->
           (addr_orig :> Element(addr_orig, "Terminal",
                attach_to_link(orig.header_size, orig.payload_size,
                               orig.tx_window, addr_orig, link_addr)))
        @@ (addr_dst :> Element(addr_dst, "Terminal",
                attach_to_link(dst.header_size, dst.payload_size,
                               dst.tx_window, addr_dst, link_addr)))
        @@ (link_addr :> Element(link_addr, "Link",
                attach_nodes(link.capacity, link.propagation_delay,
                             link.bit_error_rate, addr_orig, addr_dst)))]

\* Network::get_ref_terminal_by_addr
get_ref_terminal_by_addr(self, addr) == self.elements[addr].class.body

\* Network::get_ref_link_by_addr
get_ref_link_by_addr(self, addr) == self.elements[addr].class.body

\* Network::start
NetworkStart(self, terminal_addr, now) ==
    start(get_ref_terminal_by_addr(self, terminal_addr), now)

\* process_event that also records, in the link, the time at which a terminal
\* hands packets over.
process_event_counting_at_link(self, event, now, u) ==
    LET e == self.elements[event.target.addr]
        done == IF e.class.tag = "Terminal"
                THEN TerminalProcess(e.class.body, event, now,
                         get_ref_link_by_addr(self, e.class.body.link_addr))
                ELSE LinkProcess(e.class.body, event, now, u)
        link_addr == IF e.class.tag = "Terminal" THEN e.class.body.link_addr
                     ELSE e.addr
        link == get_ref_link_by_addr(self, link_addr)
        written == [self EXCEPT
                      !.elements[event.target.addr] =
                          Element(e.addr, e.class.tag, done.self)]
    IN  [self |-> IF e.class.tag = "Terminal" /\ Len(done.res) > 1
                  THEN [written EXCEPT
                          !.elements[link_addr] =
                              Element(link_addr, "Link",
                                  [link EXCEPT !.last_tx_from_src = now])]
                  ELSE written,
         evs |-> done.res]

\* Network::process_event: the element at the target processes the event on a
\* copy of itself, which is then written back; a terminal reads its link.
process_event(self, event, now, u) ==
    LET e == self.elements[event.target.addr]
        done == IF e.class.tag = "Terminal"
                THEN TerminalProcess(e.class.body, event, now,
                         get_ref_link_by_addr(self, e.class.body.link_addr))
                ELSE LinkProcess(e.class.body, event, now, u)
    IN  [self |-> [self EXCEPT
                     !.elements[event.target.addr] =
                         Element(e.addr, e.class.tag, done.self)],
         evs |-> done.res]

(***************************************************************************)
(* The event queue (simulator.rs: Simulator).                              *)
(***************************************************************************)
\* Simulator::add_events: BinaryHeap::extend of every event of the slice.
RECURSIVE add_events(_, _)
add_events(event_queue, events) ==
    IF events = <<>>
    THEN event_queue
    ELSE add_events(event_queue (+) SetToBag({Head(events)}), Tail(events))

\* Simulator::peek: the events BinaryHeap can have at its root, the greatest
\* ones by Ord for Event; which of several equal ones is the heap's choice.
peek(event_queue) ==
    {e \in BagToSet(event_queue) :
        \A f \in BagToSet(event_queue) : EventCmp(f, e) # "Greater"}

\* pop that removes every event equal to e by PartialEq for Event, which
\* compares the due_time alone.
pop_all_equal(event_queue, e) ==
    LET gone == {f \in BagToSet(event_queue) : f.due_time = e.due_time}
    IN  [f \in BagToSet(event_queue) \ gone |-> event_queue[f]]

\* Simulator::pop: the queue after the root e has been removed.
pop(event_queue, e) == event_queue (-) SetToBag({e})

(***************************************************************************)
(* The driver (main.rs: main).                                             *)
(***************************************************************************)
VARIABLES
    network,      \* the Network: its two terminals and its link
    event_queue,  \* Simulator::event_queue, a bag of events
    rng,          \* Simulator::rng, the generator seeded by main
    clock,        \* the logical time of main
    pc,           \* where main is: "start", "loop" or "report"
    exhausted,    \* main has logged "We have run out out events!"
    popped,       \* history: <<e>> for the event e of the last pop, else <<>>
    produced,     \* history: the events the last process_event returned
    pops,         \* history: the number of events popped so far
    dataTx,       \* history: the bag of the seqnos of the DATA packets sent
    undelivered,  \* history: the packets handed to the link and not yet
                  \* processed by the terminal they are addressed to
    twin          \* a second run of main on the same arguments, or <<>>

vars == <<network, event_queue, rng, clock, pc, exhausted, popped, produced,
          pops, dataTx, undelivered, twin>>

src_addr == 0

dst_addr == 1

link_addr == 2

duration == Duration

\* The seqnos of the DATA packets that the events evs hand to the link.
RECURSIVE DataSeqnos(_)
DataSeqnos(evs) ==
    IF evs = <<>>
    THEN EmptyBag
    ELSE (IF Head(evs).kind.tag = "Payload" /\ Head(evs).target.tag = "Link"
             /\ Head(evs).kind.packet.payload_size > 0
          THEN SetToBag({Head(evs).kind.packet.seqno})
          ELSE EmptyBag) (+) DataSeqnos(Tail(evs))

\* The packets that the events evs hand to the link early enough for the
\* link to hand them on, after the delay, before the loop ends.
RECURSIVE HandedToLink(_, _)
HandedToLink(evs, delay) ==
    IF evs = <<>>
    THEN EmptyBag
    ELSE (IF Head(evs).kind.tag = "Payload" /\ Head(evs).target.tag = "Link"
             /\ Head(evs).due_time + delay < duration
          THEN SetToBag({Head(evs).kind.packet})
          ELSE EmptyBag) (+) HandedToLink(Tail(evs), delay)

\* The packet that the event e brings to the terminal it is addressed to.
BroughtBy(e) ==
    IF e.kind.tag = "Payload" /\ e.target = TargetTerminal(e.kind.packet.dst_addr)
    THEN SetToBag({e.kind.packet})
    ELSE EmptyBag

\* main.rs:106-117: the network is built from the arguments, the queue is
\* empty and the clock is Time(0).
InitRun ==
    /\ \E header_length \in HeaderSizes, payload_length \in PayloadSizes,
          tx_window \in Windows, delay \in Delays, ber \in BitErrorRates :
          network = add_link_and_terminals(
                        [header_size |-> header_length,
                         payload_size |-> payload_length,
                         tx_window |-> tx_window],
                        [header_size |-> header_length, payload_size |-> 0,
                         tx_window |-> tx_window],
                        [capacity |-> Capacity, propagation_delay |-> delay,
                         bit_error_rate |-> ber])
    /\ event_queue = EmptyBag
    /\ \E seed \in Seeds : rng = from_seed(seed)
    /\ clock = 0
    /\ pc = "start"
    /\ exhausted = FALSE
    /\ popped = <<>>
    /\ produced = <<>>
    /\ pops = 0
    /\ dataTx = EmptyBag
    /\ undelivered = EmptyBag

\* One run of main.
Init == InitRun /\ twin = <<>>

\* main.rs:119: simulator.add_events(&network.start(src_addr, clock))
StartRun ==
    /\ pc = "start"
    /\ event_queue' = add_events(event_queue, NetworkStart(network, src_addr, clock))
    /\ pc' = "loop"
    /\ UNCHANGED <<network, rng, clock, exhausted, popped, produced, pops,
                   dataTx, undelivered>>

Start == StartRun /\ UNCHANGED twin

\* main.rs:121-127: one turn of the loop on the popped event e, with the
\* value u drawn if the link takes a corruption decision.
Turn(e, u) ==
    LET now == e.due_time
        done == process_event(network, e, now, u)
    IN  /\ clock' = now
        /\ network' = done.self
        /\ event_queue' = add_events(pop(event_queue, e), done.evs)
        /\ popped' = <<e>>
        /\ produced' = done.evs
        /\ pops' = pops + 1
        /\ dataTx' = dataTx (+) DataSeqnos(done.evs)
        /\ undelivered' =
               (undelivered (-) BroughtBy(e))
                   (+) HandedToLink(done.evs,
                           get_ref_link_by_addr(network, link_addr).propagation_delay)
        /\ UNCHANGED <<rng, pc, exhausted>>

\* The loop of main without its test of the clock.
Running_without_clock_test == pc = "loop"

\* main.rs:121: the test of the while loop holds.
Running == pc = "loop" /\ clock < duration

\* The dispatch of process_event and of AttachedTerminal::process on e.
IsTimeoutAtTerminal(e) == e.target.tag = "Terminal" /\ e.kind.tag = "Timeout"

IsAckAtTerminal(e) ==
    /\ e.target.tag = "Terminal" /\ e.kind.tag = "Payload"
    /\ e.kind.packet.payload_size = 0

IsDataAtTerminal(e) ==
    /\ e.target.tag = "Terminal" /\ e.kind.tag = "Payload"
    /\ e.kind.packet.payload_size > 0

IsPayloadAtLink(e) == e.target.tag = "Link" /\ e.kind.tag = "Payload"

\* A turn of the loop on a Timeout at a terminal.
TimeoutAtTerminal ==
    /\ Running
    /\ \E e \in peek(event_queue) : IsTimeoutAtTerminal(e) /\ Turn(e, 0)
    /\ UNCHANGED twin

\* A turn of the loop on an ACK at a terminal.
AckAtTerminal ==
    /\ Running
    /\ \E e \in peek(event_queue) : IsAckAtTerminal(e) /\ Turn(e, 0)
    /\ UNCHANGED twin

\* A turn of the loop on a DATA packet at a terminal.
DataAtTerminal ==
    /\ Running
    /\ \E e \in peek(event_queue) : IsDataAtTerminal(e) /\ Turn(e, 0)
    /\ UNCHANGED twin

\* A turn of the loop on a packet at the link, which draws u.
PayloadAtLink ==
    /\ Running
    /\ \E e \in peek(event_queue) :
          IsPayloadAtLink(e) /\ \E u \in Draws : Turn(e, u)
    /\ UNCHANGED twin

\* main.rs:128-131: pop returned None.
OutOfEventsRun ==
    /\ Running
    /\ event_queue = EmptyBag
    /\ pc' = "report"
    /\ exhausted' = TRUE
    /\ UNCHANGED <<network, event_queue, rng, clock, popped, produced, pops,
                   dataTx, undelivered>>

OutOfEvents == OutOfEventsRun /\ UNCHANGED twin

\* main.rs:121, 135-152: the clock has reached the duration.
ReportRun ==
    /\ pc = "loop"
    /\ clock >= duration
    /\ pc' = "report"
    /\ UNCHANGED <<network, event_queue, rng, clock, exhausted, popped,
                   produced, pops, dataTx, undelivered>>

Report == ReportRun /\ UNCHANGED twin

Next ==
    \/ Start
    \/ TimeoutAtTerminal
    \/ AckAtTerminal
    \/ DataAtTerminal
    \/ PayloadAtLink
    \/ OutOfEvents
    \/ Report

Spec == Init /\ [][Next]_vars

\* The runs on a link without bit errors; the loop of main runs on without
\* waiting for anything, hence the fairness.
LosslessInit ==
    /\ Init
    /\ get_ref_link_by_addr(network, link_addr).bit_error_rate = 0

LosslessSpec == LosslessInit /\ [][Next]_vars /\ WF_vars(Next)

\* The runs of main with the longest header and the longest propagation
\* delay, on links with and without bit errors; the loop runs on without
\* waiting for anything, hence the fairness.
FairInit ==
    /\ Init
    /\ get_ref_terminal_by_addr(network, src_addr).header_size = MaxHeader
    /\ get_ref_link_by_addr(network, link_addr).propagation_delay = MaxDelay

FairSpec == FairInit /\ [][Next]_vars /\ WF_vars(Next)

(***************************************************************************)
(* The loop of main for as long as it takes (a duration that is never      *)
(* reached), up to the acknowledgement of the packet Goal.  Time is        *)
(* counted from the clock: after each turn the due times of the queue and  *)
(* last_tx_sched, which is only read as max(now, last_tx_sched), are       *)
(* written relative to now, and the byte counters of the link are left at  *)
(* zero, so that a run that retransmits for ever walks through finitely    *)
(* many states.                                                            *)
(***************************************************************************)
\* The seqno whose acknowledgement ends the run.
Goal == MaxWindow + 1

\* The event e with its due time counted from now.
EventFrom(e, now) == Event(e.due_time - now, e.target, e.kind)

RECURSIVE EventsFrom(_, _)
EventsFrom(evs, now) ==
    IF evs = <<>> THEN <<>>
    ELSE <<EventFrom(Head(evs), now)>> \o EventsFrom(Tail(evs), now)

QueueFrom(queue, now) ==
    LET shifted(e) == EventFrom(e, now)
    IN  BagOfAll(shifted, queue)

\* The terminal with last_tx_sched counted from now; a time in the past
\* counts as now (advance_delivery_time takes the max of the two).
TerminalFrom(self, now) ==
    [self EXCEPT !.last_tx_sched = Max(self.last_tx_sched - now, 0)]

\* The network with its times counted from now, and without the counts of
\* the link, which only the report reads.
NetworkFrom(net, now) ==
    [net EXCEPT
       !.elements[src_addr].class.body = TerminalFrom(@, now),
       !.elements[dst_addr].class.body = TerminalFrom(@, now),
       !.elements[link_addr].class.body.counter = DataCounterDefault]

\* The bag with at most two copies of each element.
AtMostTwice(bag) == [x \in BagToSet(bag) |-> IF bag[x] > 2 THEN 2 ELSE bag[x]]

\* main.rs:121-127: one turn of the loop on the popped event e, with the
\* value u drawn if the link takes a corruption decision; dataTx records a
\* seqno sent more than once as sent twice.
SteadyTurn(e, u) ==
    /\ pc = "loop"
    /\ get_ref_terminal_by_addr(network, src_addr).last_acked < Goal
    /\ \E done \in {process_event(network, e, e.due_time, u)} :
          /\ network' = NetworkFrom(done.self, e.due_time)
          /\ event_queue' =
                QueueFrom(add_events(pop(event_queue, e), done.evs), e.due_time)
          /\ popped' = <<EventFrom(e, e.due_time)>>
          /\ produced' = EventsFrom(done.evs, e.due_time)
          /\ dataTx' = AtMostTwice(dataTx (+) DataSeqnos(done.evs))
    /\ UNCHANGED <<rng, clock, pc, exhausted, pops, undelivered, twin>>

\* A turn of the loop on an event at a terminal.
SteadyAtTerminal ==
    \E e \in peek(event_queue) : e.target.tag = "Terminal" /\ SteadyTurn(e, 0)

\* A turn of the loop on the packet of e at the link, which draws a value
\* that makes it drop the packet.
SteadyLinkDrops ==
    \E e \in peek(event_queue) :
        /\ IsPayloadAtLink(e)
        /\ \E u \in Draws :
              /\ drop_packet(get_ref_link_by_addr(network, link_addr),
                             e.kind.packet, u)
              /\ SteadyTurn(e, u)

\* A turn of the loop on the packet of e at the link, which draws a value
\* that makes it pass the packet on.
LinkPassesOn(e) ==
    /\ e \in peek(event_queue)
    /\ IsPayloadAtLink(e)
    /\ \E u \in Draws :
          /\ ~drop_packet(get_ref_link_by_addr(network, link_addr),
                          e.kind.packet, u)
          /\ SteadyTurn(e, u)

SteadyLinkPassesOn == \E e \in BagToSet(event_queue) : LinkPassesOn(e)

\* The link passes on the first DATA packet that the sender has not got an
\* acknowledgement for, or an ACK that acknowledges a packet for the first
\* time.
PassesOnNextData ==
    \E e \in BagToSet(event_queue) :
        /\ e.kind.tag = "Payload"
        /\ e.kind.packet.payload_size > 0
        /\ e.kind.packet.seqno =
              get_ref_terminal_by_addr(network, src_addr).last_acked + 1
        /\ LinkPassesOn(e)

PassesOnNewAck ==
    \E e \in BagToSet(event_queue) :
        /\ e.kind.tag = "Payload"
        /\ e.kind.packet.payload_size = 0
        /\ e.kind.packet.seqno >
              get_ref_terminal_by_addr(network, src_addr).last_acked
        /\ LinkPassesOn(e)

SteadyNext ==
    \/ Start
    \/ SteadyAtTerminal
    \/ SteadyLinkDrops
    \/ SteadyLinkPassesOn

\* The runs of a sender with the longest header and payload on links that do
\* not lose every packet; the loop runs on, and the corruption decision of
\* the link does not go against the same packet for ever.
SteadyInit ==
    /\ Init
    /\ get_ref_terminal_by_addr(network, src_addr).header_size = MaxHeader
    /\ get_ref_terminal_by_addr(network, src_addr).payload_size = MaxPayload
    /\ get_ref_link_by_addr(network, link_addr).bit_error_rate < Unit

SteadySpec ==
    /\ SteadyInit /\ [][SteadyNext]_vars
    /\ WF_vars(SteadyNext)
    /\ SF_vars(PassesOnNextData) /\ SF_vars(PassesOnNewAck)

(***************************************************************************)
(* Two runs of main on the same arguments and the same seed, side by side. *)
(* The second run is the record twin; it takes the turn that the first run *)
(* takes, on its own state and with its own draw, as long as the two runs  *)
(* agree (BinaryHeap pops the same event from the same queue).             *)
(***************************************************************************)
\* The state of the first run, as a record like twin.
Snapshot ==
    [network |-> network, event_queue |-> event_queue, rng |-> rng,
     clock |-> clock, pc |-> pc, exhausted |-> exhausted, popped |-> popped]

Agree == twin = Snapshot

TwinInit == InitRun /\ twin = Snapshot

\* main.rs:119 in the second run.
TwinStartRun(self) ==
    [self EXCEPT
       !.event_queue = add_events(self.event_queue,
                                  NetworkStart(self.network, src_addr, self.clock)),
       !.pc = "loop"]

\* main.rs:121-127 in the second run, on the event e and with the draw u.
TwinTurn(self, e, u) ==
    LET now == e.due_time
        done == process_event(self.network, e, now, u)
    IN  [self EXCEPT
           !.clock = now,
           !.network = done.self,
           !.event_queue = add_events(pop(self.event_queue, e), done.evs),
           !.popped = <<e>>]

TwinStart == Agree /\ StartRun /\ twin' = TwinStartRun(twin)

TwinTimeoutAtTerminal ==
    /\ Agree /\ Running
    /\ \E e \in peek(event_queue) :
          IsTimeoutAtTerminal(e) /\ Turn(e, 0) /\ twin' = TwinTurn(twin, e, 0)

TwinAckAtTerminal ==
    /\ Agree /\ Running
    /\ \E e \in peek(event_queue) :
          IsAckAtTerminal(e) /\ Turn(e, 0) /\ twin' = TwinTurn(twin, e, 0)

TwinDataAtTerminal ==
    /\ Agree /\ Running
    /\ \E e \in peek(event_queue) :
          IsDataAtTerminal(e) /\ Turn(e, 0) /\ twin' = TwinTurn(twin, e, 0)

\* Each run draws from rand::thread_rng(): the draws u and v are unrelated.
TwinPayloadAtLink ==
    /\ Agree /\ Running
    /\ \E e \in peek(event_queue) :
          /\ IsPayloadAtLink(e)
          /\ \E u \in Draws : Turn(e, u)
          /\ \E v \in Draws : twin' = TwinTurn(twin, e, v)

TwinOutOfEvents ==
    /\ Agree /\ OutOfEventsRun
    /\ twin' = [twin EXCEPT !.pc = "report", !.exhausted = TRUE]

TwinReport ==
    /\ Agree /\ ReportRun
    /\ twin' = [twin EXCEPT !.pc = "report"]

TwinNext ==
    \/ TwinStart
    \/ TwinTimeoutAtTerminal
    \/ TwinAckAtTerminal
    \/ TwinDataAtTerminal
    \/ TwinPayloadAtLink
    \/ TwinOutOfEvents
    \/ TwinReport

TwinSpec == TwinInit /\ [][TwinNext]_vars

(***************************************************************************)
(* Properties.                                                             *)
(***************************************************************************)
TerminalAddrs == {src_addr, dst_addr}

\* The terminal at address a, and the link.
T(a) == get_ref_terminal_by_addr(network, a)

L == get_ref_link_by_addr(network, link_addr)

\* The last popped event was targeted at terminal a.
PoppedAt(a) == popped # <<>> /\ popped[1].target = TargetTerminal(a)

PoppedIsAck == popped # <<>> /\ popped[1].kind.tag = "Payload"
                   /\ popped[1].kind.packet.payload_size = 0

PoppedIsData == popped # <<>> /\ popped[1].kind.tag = "Payload"
                    /\ popped[1].kind.packet.payload_size > 0

PoppedIsTimeout == popped # <<>> /\ popped[1].kind.tag = "Timeout"

\* Some packet has been lost on the link.
SomeLoss == L.counter.raw_delivered < L.counter.raw_transmitted

\* C1: in every reachable state every terminal has last_acked <= last_sent
\* and last_sent - last_acked <= tx_window.
C1_WindowInvariant ==
    \A a \in TerminalAddrs :
        /\ T(a).last_acked <= T(a).last_sent
        /\ T(a).last_sent - T(a).last_acked <= T(a).tx_window

\* C1 witness: after a loss the sender has accepted an ACK and slid its window.
C1_Witness ==
    /\ SomeLoss
    /\ PoppedAt(src_addr) /\ PoppedIsAck
    /\ T(src_addr).last_acked = popped[1].kind.packet.seqno
    /\ T(src_addr).last_acked >= 2
    /\ produced # <<>>

\* The step pops an event targeted at terminal a.
PopsAt(a) == pops' = pops + 1 /\ popped'[1].target = TargetTerminal(a)

\* The step pops an ACK for terminal a.
PopsAckAt(a) ==
    /\ PopsAt(a)
    /\ popped'[1].kind.tag = "Payload"
    /\ popped'[1].kind.packet.payload_size = 0

\* The step pops a DATA packet for terminal a.
PopsDataAt(a) ==
    /\ PopsAt(a)
    /\ popped'[1].kind.tag = "Payload"
    /\ popped'[1].kind.packet.payload_size > 0

\* C2: last_acked of a terminal changes only when the terminal processes an
\* ACK; it then becomes the seqno of the ACK, which is strictly greater than
\* the old last_acked and at most the last_sent the terminal had; an ACK
\* whose seqno is in that range is always accepted.
C2_AckedStrictlyIncreasing ==
    [][\A a \in TerminalAddrs :
          /\ T(a)'.last_acked # T(a).last_acked =>
                /\ PopsAckAt(a)
                /\ T(a)'.last_acked = popped'[1].kind.packet.seqno
                /\ T(a)'.last_acked > T(a).last_acked
                /\ T(a)'.last_acked <= T(a).last_sent
          /\ (/\ PopsAckAt(a)
              /\ popped'[1].kind.packet.seqno > T(a).last_acked
              /\ popped'[1].kind.packet.seqno <= T(a).last_sent)
                => T(a)'.last_acked = popped'[1].kind.packet.seqno]_vars

\* C2 witness: the sender has accepted an ACK and sent new packets for it
\* while an ACK that has become stale is still on its way to it.
C2_Witness ==
    /\ PoppedAt(src_addr) /\ PoppedIsAck
    /\ T(src_addr).last_acked = popped[1].kind.packet.seqno
    /\ produced # <<>>
    /\ \E e \in BagToSet(event_queue) :
          /\ e.kind.tag = "Payload" /\ e.kind.packet.payload_size = 0
          /\ e.kind.packet.dst_addr = src_addr
          /\ e.kind.packet.seqno < T(src_addr).last_acked

\* C3: last_recv of a terminal never decreases; it changes only when the
\* terminal processes the DATA packet with seqno last_recv + 1, by one; a
\* DATA packet with seqno <= last_recv leaves it unchanged.
C3_RecvCountedOnce ==
    [][\A a \in TerminalAddrs :
          /\ T(a)'.last_recv >= T(a).last_recv
          /\ T(a)'.last_recv # T(a).last_recv =>
                /\ PopsDataAt(a)
                /\ popped'[1].kind.packet.seqno = T(a).last_recv + 1
                /\ T(a)'.last_recv = T(a).last_recv + 1
          /\ (PopsDataAt(a) /\ popped'[1].kind.packet.seqno <= T(a).last_recv)
                => T(a)'.last_recv = T(a).last_recv]_vars

\* C3 witness: the receiver has processed a duplicate of a DATA packet older
\* than the last one it received, and has answered it.
C3_Witness ==
    /\ PoppedAt(dst_addr) /\ PoppedIsData
    /\ popped[1].kind.packet.seqno < T(dst_addr).last_recv
    /\ produced # <<>>

\* C4: with bit_error_rate = 0 every DATA seqno is handed to the link once.
C4_NoRetransmissionLossless ==
    L.bit_error_rate = 0 =>
        \A s \in BagToSet(dataTx) : CopiesIn(s, dataTx) <= 1

\* C5: with bit_error_rate = 0 every packet handed to the link, whose
\* delivery falls within the duration of the run, is eventually processed
\* by the terminal it is addressed to: the run reaches its end with no such
\* packet left undelivered.
C5_EventuallyDelivered ==
    <>(pc = "report" /\ undelivered = EmptyBag)

\* C5 witness: on a link without errors the sender has got the ACKs of two
\* packets, so DATA and ACK packets have crossed the link, and nothing is
\* left undelivered at the end of the run.
C5_Witness ==
    /\ L.bit_error_rate = 0
    /\ pc = "report"
    /\ T(src_addr).last_acked >= 2
    /\ L.counter.raw_delivered > 0
    /\ undelivered = EmptyBag

\* C6: with bit_error_rate = 1 no packet is delivered: the sender's
\* last_acked and the receiver's last_recv stay 0 and the link hands on no
\* DATA byte.
C6_NothingDeliveredAtBerOne ==
    L.bit_error_rate = Unit =>
        /\ T(src_addr).last_acked = 0
        /\ T(dst_addr).last_recv = 0
        /\ L.counter.good_delivered = 0

\* C7: two runs with the same seed, the same arguments and the same
\* duration pop the same events and have the same link counters and the
\* same acked_packets at every turn.
C7_SameSeedSameRun ==
    twin # <<>> =>
        /\ twin.popped = popped
        /\ twin.clock = clock
        /\ get_ref_link_by_addr(twin.network, link_addr).counter = L.counter
        /\ get_transmitted_packets(get_ref_terminal_by_addr(twin.network, src_addr))
               = get_transmitted_packets(T(src_addr))

\* C8: pop returns a pending event of minimal due_time and, among the
\* pending events of that due_time, a Payload before any Timeout; it removes
\* one copy of that event and nothing else; main sees None exactly when the
\* queue is empty.
C8_PopEarliestPayloadFirst ==
    [][/\ pops' = pops + 1 =>
             /\ BagIn(popped'[1], event_queue)
             /\ \A f \in BagToSet(event_queue) :
                   /\ popped'[1].due_time <= f.due_time
                   /\ (f.due_time = popped'[1].due_time /\ f.kind.tag = "Payload")
                         => popped'[1].kind.tag = "Payload"
       /\ (exhausted' /\ ~exhausted) => event_queue = EmptyBag
       /\ ~(Running /\ event_queue # EmptyBag /\ pc' = "report")
       /\ (Running /\ event_queue = EmptyBag) => pops' = pops]_vars

\* C8 witness: an ACK has been popped while the Timeout of its seqno, due at
\* the same instant, stays in the queue.
C8_Witness ==
    /\ PoppedAt(src_addr) /\ PoppedIsAck
    /\ \E f \in BagToSet(event_queue) :
          /\ f.kind.tag = "Timeout"
          /\ f.due_time = popped[1].due_time
          /\ f.kind.seqno = popped[1].kind.packet.seqno

\* C9: the clock never moves backward: the due_time of a popped event is at
\* least the due_time of the event popped before it, and every event that
\* processing produces at time now is due at now or later.
C9_TimeNeverBackward ==
    [][/\ clock' >= clock
       /\ pops' = pops + 1 =>
             /\ clock' = popped'[1].due_time
             /\ \A i \in 1..Len(produced') : produced'[i].due_time >= clock'
       /\ \A f \in BagToSet(event_queue') : f.due_time >= clock']_vars

\* C9 witness: after several turns an event has been produced that is due
\* at the very instant of the clock.
C9_Witness ==
    /\ pops >= 3
    /\ clock > 0
    /\ \E i \in 1..Len(produced) : produced[i].due_time = clock

\* The number of times e occurs in the sequence evs.
Occurrences(e, evs) == Cardinality({i \in 1..Len(evs) : evs[i] = e})

\* C10: the queue loses an event only by pop: a turn of the loop takes one
\* copy of the popped event out and puts every produced event in, start
\* only adds, and nothing else changes the queue; a Timeout that an accepted
\* ACK has superseded stays queued and, when popped, changes nothing and
\* produces nothing.
C10_OnlyPopRemoves ==
    [][/\ pops' = pops + 1 =>
             \A e \in BagToSet(event_queue) \cup BagToSet(event_queue') :
                 CopiesIn(e, event_queue') =
                     CopiesIn(e, event_queue)
                         - (IF e = popped'[1] THEN 1 ELSE 0)
                         + Occurrences(e, produced')
       /\ pops' = pops =>
             \A e \in BagToSet(event_queue) :
                 CopiesIn(e, event_queue') >= CopiesIn(e, event_queue)
       /\ \A a \in TerminalAddrs :
             (/\ PopsAt(a) /\ popped'[1].kind.tag = "Timeout"
              /\ popped'[1].kind.seqno <= T(a).last_acked)
                 => produced' = <<>> /\ network' = network]_vars

\* C10 witness: the Timeout of a seqno that an ACK had acknowledged has
\* stayed in the queue, has been popped and has been discarded.
C10_Witness ==
    /\ PoppedAt(src_addr) /\ PoppedIsTimeout
    /\ popped[1].kind.seqno <= T(src_addr).last_acked
    /\ popped[1].kind.seqno > T(src_addr).tx_window
    /\ produced = <<>>

\* C11: a terminal that processes a DATA packet with seqno > last_recv + 1
\* emits no event and keeps every field; nothing else of the network changes
\* and the queue only loses the popped event.
C11_AheadOfOrderDropped ==
    [][\A a \in TerminalAddrs :
          (PopsDataAt(a) /\ popped'[1].kind.packet.seqno > T(a).last_recv + 1)
              => /\ produced' = <<>>
                 /\ T(a)' = T(a)
                 /\ network' = network
                 /\ event_queue' = pop(event_queue, popped'[1])]_vars

\* C11 witness: the receiver has just dropped the DATA packet last_recv + 2,
\* the one before it having been lost on the link.
C11_Witness ==
    /\ PoppedAt(dst_addr) /\ PoppedIsData
    /\ popped[1].kind.packet.seqno = T(dst_addr).last_recv + 2
    /\ SomeLoss
    /\ produced = <<>>

\* The step pops a Timeout for terminal a.
PopsTimeoutAt(a) == PopsAt(a) /\ popped'[1].kind.tag = "Timeout"

\* C12: a terminal that processes a Timeout(seqno) with seqno <= last_acked
\* emits no event and keeps last_acked, last_sent, last_recv, last_tx_sched
\* and every other field.
C12_StaleTimeoutIgnored ==
    [][\A a \in TerminalAddrs :
          (PopsTimeoutAt(a) /\ popped'[1].kind.seqno <= T(a).last_acked)
              => /\ produced' = <<>>
                 /\ T(a)'.last_acked = T(a).last_acked
                 /\ T(a)'.last_sent = T(a).last_sent
                 /\ T(a)'.last_recv = T(a).last_recv
                 /\ T(a)'.last_tx_sched = T(a).last_tx_sched
                 /\ T(a)' = T(a)]_vars

\* C12 witness: the sender has just discarded the timer of a packet that
\* had been acknowledged before the timer fired.
C12_Witness ==
    /\ PoppedAt(src_addr) /\ PoppedIsTimeout
    /\ T(src_addr).payload_size > 0
    /\ popped[1].kind.seqno <= T(src_addr).last_acked
    /\ produced = <<>>

\* A Timeout(seqno) targeted at terminal a is pending in the queue.
TimerPending(a, seqno) ==
    \E e \in BagToSet(event_queue) :
        e.target = TargetTerminal(a) /\ e.kind = Timeout(seqno)

\* C13: once main has started a sender with payload_size > 0, every seqno of
\* its window (last_acked, last_sent] has a Timeout(seqno) pending for the
\* sender, the queue is not empty and main never runs out of events.
C13_PendingHasTimer ==
    (pc # "start" /\ T(src_addr).payload_size > 0) =>
        /\ \A seqno \in (T(src_addr).last_acked + 1)..T(src_addr).last_sent :
              TimerPending(src_addr, seqno)
        /\ T(src_addr).last_acked < T(src_addr).last_sent
        /\ event_queue # EmptyBag
        /\ ~exhausted

\* C13 witness: the sender, with acknowledged packets behind it, has just
\* had the timer of an unacknowledged packet fire and has armed it again.
C13_Witness ==
    /\ T(src_addr).payload_size > 0
    /\ T(src_addr).last_acked >= 1
    /\ PoppedAt(src_addr) /\ PoppedIsTimeout
    /\ popped[1].kind.seqno > T(src_addr).last_acked
    /\ popped[1].kind.seqno <= T(src_addr).last_sent
    /\ TimerPending(src_addr, popped[1].kind.seqno)
    /\ popped[1] \notin BagToSet(event_queue)

\* Every packet of the run takes a positive time to serialize.
PositiveSerialization ==
    tx(L, Packet(1, T(src_addr).header_size, T(src_addr).payload_size,
                 src_addr, dst_addr)) > 0

\* The turns of the loop of main: an event is popped only while the clock
\* is before the duration, the clock becomes its due_time, and the queue of
\* the next pop holds the rest of the queue and every produced event; main
\* leaves the loop only with the clock at the duration or later, or with
\* the queue empty.
LoopTurns ==
    /\ pops' \in {pops, pops + 1}
    /\ pops' = pops + 1 =>
          /\ pc = "loop" /\ pc' = "loop" /\ clock < duration
          /\ BagIn(popped'[1], event_queue)
          /\ clock' = popped'[1].due_time
          /\ \A e \in BagToSet(event_queue) \cup {produced'[i] : i \in 1..Len(produced')} :
                CopiesIn(e, event_queue') = CopiesIn(e, event_queue)
                    - (IF e = popped'[1] THEN 1 ELSE 0) + Occurrences(e, produced')
    /\ pops' = pops => clock' = clock /\ network' = network
    /\ (pc = "loop" /\ pc' = "report") =>
          \/ clock >= duration /\ ~exhausted'
          \/ clock < duration /\ event_queue = EmptyBag /\ exhausted'

DataPacket ==
    Packet(1, T(src_addr).header_size, T(src_addr).payload_size, src_addr, dst_addr)

AckPacket == Packet(1, T(dst_addr).header_size, 0, dst_addr, src_addr)

\* The run is over, and it was a run of a sender with a payload and a window
\* of one packet on a link without bit errors.
StopAndWaitRunOver ==
    /\ pc = "report"
    /\ L.bit_error_rate = 0
    /\ T(src_addr).tx_window = 1
    /\ T(src_addr).payload_size > 0

\* last_acked is within one unit of the whole round trips in time.
WithinOneOf(time, round_trip) ==
    /\ get_transmitted_packets(T(src_addr)) >= (time \div round_trip) - 1
    /\ get_transmitted_packets(T(src_addr)) <= (time \div round_trip) + 1

\* C15 as stated: at the end of such a run acked_packets is within one unit
\* of floor(duration / (2 x propagation_delay + serialization time of a
\* DATA packet)).
C15_AckedPerRoundTrip ==
    StopAndWaitRunOver =>
        WithinOneOf(duration,
                    L.propagation_delay + L.propagation_delay + tx(L, DataPacket))

\* C15 amended: at the end of such a run acked_packets is within one unit of
\* floor((duration - 1) / (2 x propagation_delay + serialization time of a
\* DATA packet + serialization time of an ACK)); the first packet leaves
\* when the Timeout that start schedules at time 1 fires.
C15_AckedPerFullRoundTrip ==
    StopAndWaitRunOver =>
        WithinOneOf(duration - 1,
                    L.propagation_delay + L.propagation_delay
                        + tx(L, DataPacket) + tx(L, AckPacket))

\* C15 witness: such a run is over with several packets acknowledged, on a
\* link where the ACKs take time to serialize.
C15_Witness ==
    /\ StopAndWaitRunOver
    /\ tx(L, AckPacket) > 0
    /\ get_transmitted_packets(T(src_addr)) >= 3
    /\ clock >= duration

\* The packets that the events evs hand to a link, in the order of evs.
RECURSIVE PacketsOf(_)
PacketsOf(evs) ==
    IF evs = <<>>
    THEN <<>>
    ELSE (IF Head(evs).kind.tag = "Payload" /\ Head(evs).target.tag = "Link"
          THEN <<Head(evs).kind.packet>>
          ELSE <<>>) \o PacketsOf(Tail(evs))

\* The step pops, for terminal a, an ACK that the terminal accepts.
AcceptsAckAt(a) ==
    /\ PopsAckAt(a)
    /\ popped'[1].kind.packet.seqno > T(a).last_acked
    /\ popped'[1].kind.packet.seqno <= T(a).last_sent

\* C16: a terminal that accepts an ACK with seqno s sets last_acked = s and
\* last_sent = s + tx_window and hands to its link exactly the packets with
\* the seqnos old last_sent + 1 .. s + tx_window, in ascending order, each
\* once, with its own header and payload sizes, from itself to the source of
\* the ACK.
C16_AckSlidesWindow ==
    [][\A a \in TerminalAddrs :
          AcceptsAckAt(a) =>
              LET s == popped'[1].kind.packet.seqno
                  sent == PacketsOf(produced')
              IN  /\ T(a)'.last_acked = s
                  /\ T(a)'.last_sent = s + T(a).tx_window
                  /\ Len(sent) = s + T(a).tx_window - T(a).last_sent
                  /\ \A i \in 1..Len(sent) :
                        sent[i] = Packet(T(a).last_sent + i, T(a).header_size,
                                         T(a).payload_size, a,
                                         popped'[1].kind.packet.src_addr)
                  /\ \A i \in 1..Len(produced') :
                        produced'[i].kind.tag = "Payload"
                            => produced'[i].target = TargetLink(T(a).link_addr)]_vars

\* C16 witness: the sender has accepted an ACK that acknowledged two packets
\* at once and has sent two new DATA packets for it.
C16_Witness ==
    /\ PoppedAt(src_addr) /\ PoppedIsAck
    /\ T(src_addr).payload_size > 0
    /\ T(src_addr).last_acked = popped[1].kind.packet.seqno
    /\ Len(PacketsOf(produced)) = 2
    /\ PacketsOf(produced)[2].seqno = T(src_addr).last_sent
    /\ PacketsOf(produced)[1].seqno = T(src_addr).last_sent - 1

\* C17: a terminal that processes an ACK with seqno <= last_acked or with
\* seqno > last_sent emits no event and keeps last_acked, last_sent,
\* last_recv, last_tx_sched and every other field.
C17_AckOutsideWindowIgnored ==
    [][\A a \in TerminalAddrs :
          (PopsAckAt(a) /\ ~AcceptsAckAt(a))
              => /\ produced' = <<>>
                 /\ T(a)'.last_acked = T(a).last_acked
                 /\ T(a)'.last_sent = T(a).last_sent
                 /\ T(a)'.last_recv = T(a).last_recv
                 /\ T(a)'.last_tx_sched = T(a).last_tx_sched
                 /\ network' = network]_vars

\* C17 witness: the sender of DATA packets has just ignored a stale ACK, the
\* ACK of a packet that a later ACK had acknowledged already.
C17_Witness ==
    /\ PoppedAt(src_addr) /\ PoppedIsAck
    /\ T(src_addr).payload_size > 0
    /\ popped[1].kind.packet.seqno < T(src_addr).last_acked
    /\ produced = <<>>

\* C18: a terminal that processes a DATA packet with seqno <= last_recv + 1
\* sets last_recv to max(last_recv, seqno) and emits one event and no more:
\* the hand-over to its link of a packet without payload that carries the
\* seqno of the DATA packet, from the terminal to the source of the DATA
\* packet; no Timeout is emitted.  This holds for duplicates too.
C18_DataAcknowledged ==
    [][\A a \in TerminalAddrs :
          (PopsDataAt(a) /\ popped'[1].kind.packet.seqno <= T(a).last_recv + 1)
              => /\ T(a)'.last_recv =
                        Max(T(a).last_recv, popped'[1].kind.packet.seqno)
                 /\ Len(produced') = 1
                 /\ produced'[1].target = TargetLink(T(a).link_addr)
                 /\ produced'[1].kind =
                        Payload(Packet(popped'[1].kind.packet.seqno,
                                       T(a).header_size, 0, a,
                                       popped'[1].kind.packet.src_addr))
                 /\ produced'[1].due_time >= clock'
                 /\ T(a)'.last_acked = T(a).last_acked
                 /\ T(a)'.last_sent = T(a).last_sent]_vars

\* C18 witness: the receiver, having received later packets, has just
\* answered a duplicate of an earlier DATA packet with an ACK that carries
\* the seqno of the duplicate.
C18_Witness ==
    /\ PoppedAt(dst_addr) /\ PoppedIsData
    /\ popped[1].kind.packet.seqno + 1 <= T(dst_addr).last_recv
    /\ Len(produced) = 1
    /\ produced[1].kind.packet.payload_size = 0
    /\ produced[1].kind.packet.seqno = popped[1].kind.packet.seqno
    /\ produced[1].kind.packet.dst_addr = src_addr

\* The events that terminal a emits, and the last_tx_sched it ends with,
\* when at time now, with its link free at sched, it transmits the packets
\* one after the other: each packet is handed to the link when the link is
\* free, at max(now, sched) plus its serialization time, and a packet with
\* a payload has a Timeout a retransmission timeout later.
RECURSIVE TransmitEvents(_, _, _, _)
TransmitEvents(a, packets, sched, now) ==
    IF packets = <<>>
    THEN [res |-> <<>>, sched |-> sched]
    ELSE LET p == Head(packets)
             free == Max(now, sched) + tx(L, p)
             rest == TransmitEvents(a, Tail(packets), free, now)
         IN  [res |-> (IF p.payload_size > 0
                       THEN <<Event(free + calc_timeout(L, p),
                                    TargetTerminal(a), Timeout(p.seqno))>>
                       ELSE <<>>)
                      \o <<Event(free, TargetLink(T(a).link_addr), Payload(p))>>
                      \o rest.res,
              sched |-> rest.sched]

\* C19: whatever a terminal transmits while it processes an event at time
\* now, each transmit sets last_tx_sched to max(now, last_tx_sched) plus
\* the serialization time of the packet and emits one Payload event for the
\* link of the terminal, due at the new last_tx_sched, and, if and only if
\* the packet has a payload, one Timeout(seqno) for the terminal itself, due
\* a retransmission timeout after it; the terminal emits nothing else.
C19_TransmitSchedules ==
    [][\A a \in TerminalAddrs :
          PopsAt(a) =>
              LET all == TransmitEvents(a, PacketsOf(produced'),
                                        T(a).last_tx_sched, clock')
              IN  /\ produced' = all.res
                  /\ T(a)'.last_tx_sched = all.sched]_vars

\* C19 witness: the sender has transmitted two DATA packets in one turn;
\* the second one waits for the first to leave, and each has its Timeout;
\* the ACK in the queue has none.
C19_Witness ==
    /\ PoppedAt(src_addr)
    /\ Len(produced) = 4
    /\ produced[1].kind.tag = "Timeout" /\ produced[3].kind.tag = "Timeout"
    /\ produced[2].kind.tag = "Payload" /\ produced[4].kind.tag = "Payload"
    /\ produced[2].due_time > clock
    /\ produced[4].due_time = produced[2].due_time + tx(L, produced[4].kind.packet)
    /\ T(src_addr).last_tx_sched = produced[4].due_time
    /\ produced[3].due_time > produced[4].due_time
    /\ T(dst_addr).last_tx_sched > 0

\* The terminal at the other end of the link of terminal a.
OtherEnd(a) == IF a = L.src_addr THEN L.dst_addr ELSE L.src_addr

\* The step pops, for terminal a, the Timeout of a seqno that is not yet
\* acknowledged; the terminal then hands to the link one packet, with that
\* seqno, its own header and payload sizes, from itself to the other end of
\* its link, and keeps last_acked, last_sent and last_recv.
LiveTimeoutAt(a) == PopsTimeoutAt(a) /\ popped'[1].kind.seqno > T(a).last_acked

Retransmits(a) ==
    /\ PacketsOf(produced') =
           <<Packet(popped'[1].kind.seqno, T(a).header_size, T(a).payload_size,
                    a, OtherEnd(a))>>
    /\ T(a)'.last_acked = T(a).last_acked
    /\ T(a)'.last_sent = T(a).last_sent
    /\ T(a)'.last_recv = T(a).last_recv

\* The events produced by the step hold one Timeout, for terminal a and the
\* seqno of the popped Timeout, due later than the popped one.
Rearms(a) ==
    /\ Len(produced') = 2
    /\ \E i \in 1..2 :
          /\ produced'[i].kind = Timeout(popped'[1].kind.seqno)
          /\ produced'[i].target = TargetTerminal(a)
          /\ produced'[i].due_time >= clock'

\* C20 as stated: a Timeout(seqno) with seqno > last_acked makes the
\* terminal retransmit the packet seqno and arm a new Timeout(seqno).
C20_TimeoutRetransmitsAndRearms ==
    [][\A a \in TerminalAddrs :
          LiveTimeoutAt(a) => (Retransmits(a) /\ Rearms(a))]_vars

\* C20 amended: a Timeout(seqno) with seqno > last_acked makes the terminal
\* retransmit the packet seqno; it arms a new Timeout(seqno) if its
\* payload_size is positive, and no Timeout otherwise.
C20_TimeoutRetransmits ==
    [][\A a \in TerminalAddrs :
          LiveTimeoutAt(a) =>
              /\ Retransmits(a)
              /\ T(a).payload_size > 0 => Rearms(a)
              /\ T(a).payload_size = 0 => Len(produced') = 1]_vars

\* C20 witness: the timer of a DATA packet that is not the last one of the
\* window has fired for the second time at least; the sender has sent that
\* packet again, not the last one, and has armed the timer again.
C20_Witness ==
    /\ PoppedAt(src_addr) /\ PoppedIsTimeout
    /\ T(src_addr).payload_size > 0
    /\ popped[1].kind.seqno > T(src_addr).last_acked
    /\ popped[1].kind.seqno < T(src_addr).last_sent
    /\ CopiesIn(popped[1].kind.seqno, dataTx) >= 2
    /\ PacketsOf(produced)[1].seqno = popped[1].kind.seqno
    /\ produced[1].kind = Timeout(popped[1].kind.seqno)

\* The step pops an event targeted at the link.
PopsAtLink == pops' = pops + 1 /\ popped'[1].target = TargetLink(link_addr)

\* C21: the link, when it processes Payload(packet) at time now, adds
\* header_size + payload_size and payload_size to its entered counters; then
\* either it drops the packet, emits no event and keeps its delivered
\* counters, or it adds the same amounts to its delivered counters and emits
\* one event, Payload of the same packet for the terminal packet.dst_addr,
\* due at now + propagation_delay.
C21_LinkCountsAndForwards ==
    [][PopsAtLink =>
          LET packet == popped'[1].kind.packet
              before == L.counter
              after == L'.counter
          IN  /\ popped'[1].kind.tag = "Payload"
              /\ after.raw_transmitted =
                     before.raw_transmitted + packet.header_size + packet.payload_size
              /\ after.good_transmitted = before.good_transmitted + packet.payload_size
              /\ \/ /\ produced' = <<>>
                    /\ after.raw_delivered = before.raw_delivered
                    /\ after.good_delivered = before.good_delivered
                 \/ /\ produced' = <<Event(clock' + L.propagation_delay,
                                           TargetTerminal(packet.dst_addr),
                                           Payload(packet))>>
                    /\ after.raw_delivered =
                           before.raw_delivered + packet.header_size + packet.payload_size
                    /\ after.good_delivered =
                           before.good_delivered + packet.payload_size]_vars

\* C21 witness: the link, which has dropped a packet before, has just
\* handed a DATA packet on to the receiver.
C21_Witness ==
    /\ popped # <<>> /\ popped[1].target = TargetLink(link_addr)
    /\ PoppedIsData
    /\ SomeLoss
    /\ Len(produced) = 1
    /\ produced[1].kind = popped[1].kind
    /\ produced[1].target = TargetTerminal(dst_addr)
    /\ L.counter.good_delivered > 0

\* The packet p without its payload: the size of its ACK.
AckSized(p) == [p EXCEPT !.payload_size = 0]

\* In the events produced by the step, every Timeout is followed by the
\* hand-over to the link of the packet it guards, and is due later than that
\* hand-over by the time given for the packet.
TimersDueAfter(wait(_)) ==
    \A i \in 1..Len(produced') :
        produced'[i].kind.tag = "Timeout" =>
            /\ i < Len(produced')
            /\ produced'[i + 1].kind.tag = "Payload"
            /\ produced'[i + 1].kind.packet.seqno = produced'[i].kind.seqno
            /\ produced'[i].due_time =
                   produced'[i + 1].due_time + wait(produced'[i + 1].kind.packet)

\* The retransmission timeout as stated: the serialization times of the
\* packet and of its ACK and twice the propagation delay.
StatedTimeout(p) ==
    tx(L, p) + tx(L, AckSized(p)) + L.propagation_delay + L.propagation_delay

\* The time a packet handed to the link needs at least until its ACK is at
\* the sender: the propagation delay, the serialization of the ACK and the
\* propagation delay again.
EarliestAck(p) ==
    L.propagation_delay + tx(L, AckSized(p)) + L.propagation_delay

\* C22 as stated: the Timeout of a transmission is due a stated timeout
\* after the packet is handed to the link.
C22_TimeoutAfterFullRoundTrip ==
    [][\A a \in TerminalAddrs : PopsAt(a) => TimersDueAfter(StatedTimeout)]_vars

\* C22 amended: the Timeout of a transmission is due the serialization time
\* of the ACK plus twice the propagation delay after the packet is handed to
\* the link; this is the earliest instant at which its ACK can be at the
\* sender, as the link hands a packet on after one propagation delay and a
\* terminal hands its ACK to the link no sooner than the serialization time
\* of the ACK after it got the packet.
C22_TimeoutAtEarliestAck ==
    [][/\ \A a \in TerminalAddrs : PopsAt(a) => TimersDueAfter(EarliestAck)
       /\ (PopsAtLink /\ produced' # <<>>) =>
              produced'[1].due_time = clock' + L.propagation_delay
       /\ \A a \in TerminalAddrs :
              (PopsDataAt(a) /\ produced' # <<>>) =>
                  produced'[1].due_time
                      >= clock' + tx(L, AckSized(popped'[1].kind.packet))]_vars

\* C22 witness: the ACK of a DATA packet that took time to serialize has
\* just reached the sender at the very instant at which the Timeout of that
\* packet, still in the queue, is due.
C22_Witness ==
    /\ PoppedAt(src_addr) /\ PoppedIsAck
    /\ T(src_addr).last_acked = popped[1].kind.packet.seqno
    /\ tx(L, DataPacket) > 0
    /\ \E e \in BagToSet(event_queue) :
          /\ e.target = TargetTerminal(src_addr)
          /\ e.kind = Timeout(popped[1].kind.packet.seqno)
          /\ e.due_time = clock

\* An ACK for terminal a, resp. the Timeout(seqno) of terminal a, is in the
\* queue and due at time.
AckDueAt(queue, a, seqno, time) ==
    \E e \in BagToSet(queue) :
        /\ e.target = TargetTerminal(a) /\ e.due_time = time
        /\ e.kind.tag = "Payload" /\ e.kind.packet.payload_size = 0
        /\ e.kind.packet.seqno = seqno

TimeoutDueAt(queue, a, seqno, time) ==
    \E e \in BagToSet(queue) :
        /\ e.target = TargetTerminal(a) /\ e.due_time = time
        /\ e.kind = Timeout(seqno)

\* C23: a terminal never processes a Timeout(s) while an ACK for it, with a
\* seqno up to s, is due at the same instant; when it processes an ACK with seqno s while its
\* Timeout(s) is due at the same instant, s is acknowledged afterwards and
\* the Timeout stays in the queue; and a Timeout(s) that is processed when s
\* is acknowledged emits nothing, so that no packet is sent again.
C23_AckBeforeTimeoutAtTie ==
    [][\A a \in TerminalAddrs :
          /\ PopsTimeoutAt(a) =>
                \A seqno \in 1..popped'[1].kind.seqno :
                    ~AckDueAt(event_queue, a, seqno, popped'[1].due_time)
          /\ (/\ PopsAckAt(a)
              /\ TimeoutDueAt(event_queue, a, popped'[1].kind.packet.seqno,
                              popped'[1].due_time))
                => /\ T(a)'.last_acked >= popped'[1].kind.packet.seqno
                   /\ TimeoutDueAt(event_queue', a,
                                   popped'[1].kind.packet.seqno, clock')
          /\ (PopsTimeoutAt(a) /\ popped'[1].kind.seqno <= T(a).last_acked)
                => produced' = <<>> /\ dataTx' = dataTx]_vars

\* C23 witness: a stop-and-wait sender has just discarded the Timeout of
\* the packet whose ACK it accepted at the same instant: it sent the next
\* packet at this instant, and has sent no packet twice.
C23_Witness ==
    /\ PoppedAt(src_addr) /\ PoppedIsTimeout
    /\ T(src_addr).payload_size > 0 /\ T(src_addr).tx_window = 1
    /\ popped[1].kind.seqno = T(src_addr).last_acked
    /\ popped[1].due_time = clock
    /\ T(src_addr).last_tx_sched = clock + tx(L, DataPacket)
    /\ produced = <<>>
    /\ \A seqno \in BagToSet(dataTx) : CopiesIn(seqno, dataTx) = 1

\* The Timeout(seqno) that start emits at time 0 for the sender.
StartTimeout(seqno) == Event(seqno, TargetTerminal(src_addr), Timeout(seqno))

\* The step pops the Timeout(seqno) that start emitted.
PopsStartTimeout(seqno) ==
    /\ pops' = pops + 1
    /\ popped'[1] = StartTimeout(seqno)
    /\ seqno <= T(src_addr).tx_window
    /\ ~BagIn(seqno, dataTx)

\* The step sends the DATA packet seqno for the first time.
FirstSends(seqno) == ~BagIn(seqno, dataTx) /\ BagIn(seqno, dataTx')

\* The event e hands the DATA packet seqno to the link.
HandsToLink(e, seqno) ==
    /\ e.target.tag = "Link" /\ e.kind.tag = "Payload"
    /\ e.kind.packet.payload_size > 0 /\ e.kind.packet.seqno = seqno

\* C24: start, on the terminal as attach left it, puts into the queue one
\* Timeout(seqno) for each seqno of 1..tx_window, for that terminal and due
\* at now + seqno, and nothing else, and leaves the network as it is; the
\* Timeout(seqno) of start is popped when those of the lower seqnos are gone
\* and those of the higher seqnos are still queued; and the first send of a
\* seqno of 1..tx_window is made by the Timeout(seqno) of start, after the
\* first sends of the lower seqnos, and is handed to the link later than
\* every packet with a lower seqno.
C24_StartStaggersTimeouts ==
    [][/\ (pc = "start" /\ pc' = "loop") =>
             /\ T(src_addr).last_acked = 0
             /\ T(src_addr).last_sent = T(src_addr).tx_window
             /\ network' = network
             /\ BagToSet(event_queue') =
                    {Event(clock + seqno, TargetTerminal(src_addr), Timeout(seqno)) :
                        seqno \in 1..T(src_addr).tx_window}
             /\ \A e \in BagToSet(event_queue') : CopiesIn(e, event_queue') = 1
       /\ \A seqno \in 1..MaxWindow :
             /\ PopsStartTimeout(seqno) =>
                   /\ \A lower \in 1..(seqno - 1) :
                         ~BagIn(StartTimeout(lower), event_queue)
                   /\ \A higher \in (seqno + 1)..T(src_addr).tx_window :
                         BagIn(StartTimeout(higher), event_queue)
             /\ (FirstSends(seqno) /\ seqno <= T(src_addr).tx_window) =>
                   /\ PopsStartTimeout(seqno)
                   /\ \A lower \in 1..(seqno - 1) : BagIn(lower, dataTx)
                   /\ \A e \in BagToSet(event_queue), i \in 1..Len(produced') :
                         (HandsToLink(produced'[i], seqno)
                          /\ \E lower \in 1..(seqno - 1) : HandsToLink(e, lower))
                            => e.due_time < produced'[i].due_time]_vars

\* C24 witness: the Timeout(3) of start has just made the first send of the
\* DATA packet 3, after the packets 1 and 2 were sent.
C24_Witness ==
    /\ PoppedAt(src_addr)
    /\ popped[1] = StartTimeout(3)
    /\ T(src_addr).payload_size > 0
    /\ CopiesIn(3, dataTx) = 1
    /\ BagIn(1, dataTx) /\ BagIn(2, dataTx)
    /\ Len(produced) = 2

\* The addresses and the references between the elements are those that
\* add_link_and_terminals gave them.
AsAttached(net) ==
    /\ DOMAIN net.elements = {src_addr, dst_addr, link_addr}
    /\ \A a \in DOMAIN net.elements : net.elements[a].addr = a
    /\ \A a \in TerminalAddrs :
          /\ net.elements[a].class.tag = "Terminal"
          /\ net.elements[a].class.body.addr = a
          /\ net.elements[a].class.body.link_addr = link_addr
    /\ net.elements[link_addr].class.tag = "Link"
    /\ net.elements[link_addr].class.body.src_addr = src_addr
    /\ net.elements[link_addr].class.body.dst_addr = dst_addr

\* C25: a step that processes an event leaves every element other than the
\* target of the event as it was (an event for a terminal changes neither the
\* link nor the other terminal, an event for the link changes no terminal),
\* and the addresses and references between the elements stay those of the
\* attachment.
C25_OnlyTargetMutated ==
    [][/\ AsAttached(network) /\ AsAttached(network')
       /\ pops' = pops + 1 =>
             \A a \in DOMAIN network.elements :
                 a # popped'[1].target.addr
                    => network'.elements[a] = network.elements[a]
       /\ pops' = pops => network' = network]_vars

\* C25 witness: the receiver has just taken a DATA packet, which changed its
\* last_recv, after the link counted packets and the sender scheduled
\* transmissions.
C25_Witness ==
    /\ PoppedAt(dst_addr) /\ PoppedIsData
    /\ T(dst_addr).last_recv = popped[1].kind.packet.seqno
    /\ T(dst_addr).last_tx_sched > 0
    /\ T(src_addr).last_tx_sched > 0
    /\ T(src_addr).last_recv = 0
    /\ L.counter # DataCounterDefault
    /\ produced # <<>>

\* C26: in every reachable state the sender's last_acked is at most the
\* receiver's last_recv, which is at most the sender's last_sent.
C26_AckedRecvSentOrdered ==
    /\ T(src_addr).last_acked <= T(dst_addr).last_recv
    /\ T(dst_addr).last_recv <= T(src_addr).last_sent

\* C26 witness: the sender has packets acknowledged, the receiver has taken
\* more than those, and the window reaches beyond what the receiver took.
C26_Witness ==
    /\ T(src_addr).last_acked > 0
    /\ T(src_addr).last_acked < T(dst_addr).last_recv
    /\ T(dst_addr).last_recv < T(src_addr).last_sent

\* C28: in every reachable state every terminal has
\* last_sent = last_acked + tx_window.
C28_WindowAlwaysFull ==
    \A a \in TerminalAddrs : T(a).last_sent = T(a).last_acked + T(a).tx_window

\* C28 witness: the sender has just accepted an ACK that acknowledges two
\* packets at once, and its window has moved with it.
C28_Witness ==
    /\ PoppedAt(src_addr) /\ PoppedIsAck
    /\ T(src_addr).last_acked = popped[1].kind.packet.seqno
    /\ Len(PacketsOf(produced)) = 2
    /\ T(src_addr).last_sent = T(src_addr).last_acked + T(src_addr).tx_window

\* The Timeout events pending in the queue for terminal a and seqno, and the
\* number of them, copies counted.
TimeoutsPending(a, seqno) ==
    {e \in BagToSet(event_queue) :
        e.target = TargetTerminal(a) /\ e.kind = Timeout(seqno)}

RECURSIVE CopiesOf(_)
CopiesOf(events) ==
    IF events = {} THEN 0
    ELSE LET e == CHOOSE e \in events : TRUE
         IN  CopiesIn(e, event_queue) + CopiesOf(events \ {e})

\* The pending Timeout events of terminal a whose seqno is not acknowledged.
LiveTimeoutsPending(a) ==
    {e \in BagToSet(event_queue) :
        /\ e.target = TargetTerminal(a) /\ e.kind.tag = "Timeout"
        /\ e.kind.seqno > T(a).last_acked}

\* C29: in every reachable state the queue holds, for each terminal and each
\* seqno, at most one Timeout(seqno), and the Timeout events of a terminal
\* whose seqno is not yet acknowledged are at most tx_window.
C29_OneTimeoutPerSeqno ==
    \A a \in TerminalAddrs :
        /\ \A e \in BagToSet(event_queue) :
              (e.target = TargetTerminal(a) /\ e.kind.tag = "Timeout")
                 => CopiesOf(TimeoutsPending(a, e.kind.seqno)) = 1
        /\ CopiesOf(LiveTimeoutsPending(a)) <= T(a).tx_window

\* C29 witness: the sender, with a window of three and packets acknowledged,
\* has just had a timer fire and armed it again; three timers of packets not
\* acknowledged are pending, next to a stale one.
C29_Witness ==
    /\ PoppedAt(src_addr) /\ PoppedIsTimeout
    /\ T(src_addr).tx_window = 3
    /\ T(src_addr).last_acked > 0
    /\ popped[1].kind.seqno > T(src_addr).last_acked
    /\ CopiesOf(TimeoutsPending(src_addr, popped[1].kind.seqno)) = 1
    /\ CopiesOf(LiveTimeoutsPending(src_addr)) = 3
    /\ \E seqno \in 1..T(src_addr).last_acked : TimerPending(src_addr, seqno)

\* The events of evs that hand a packet to a link, in the order of evs.
RECURSIVE HandOvers(_)
HandOvers(evs) ==
    IF evs = <<>>
    THEN <<>>
    ELSE (IF Head(evs).kind.tag = "Payload" /\ Head(evs).target.tag = "Link"
          THEN <<Head(evs)>>
          ELSE <<>>) \o HandOvers(Tail(evs))

\* The Payload events of the queue that carry, to the same target, packets of
\* the same terminal are due at different instants.
NoPayloadTie(queue) ==
    \A e1 \in BagToSet(queue) :
        e1.kind.tag = "Payload" =>
            /\ CopiesIn(e1, queue) = 1
            /\ \A e2 \in BagToSet(queue) :
                  (/\ e2.kind.tag = "Payload" /\ e2 # e1
                   /\ e2.target = e1.target
                   /\ e2.kind.packet.src_addr = e1.kind.packet.src_addr)
                     => e2.due_time # e1.due_time

\* The step keeps the packets of each terminal in the order of their
\* transmits: a terminal hands each packet to the link later than every
\* packet it handed over before, by the serialization time of the packet,
\* which is at least least_tx, the last hand-over being last_tx_sched; the
\* link passes a packet on a constant propagation_delay after it
\* got it; and no two pending Payload events of one terminal for the same
\* target are due at the same instant.
KeepsOrder(least_tx) ==
    /\ \A a \in TerminalAddrs :
          PopsAt(a) =>
             LET h == HandOvers(produced')
                 before(i) == IF i = 1 THEN T(a).last_tx_sched
                              ELSE h[i - 1].due_time
             IN  /\ \A i \in 1..Len(h) :
                       /\ h[i].kind.packet.src_addr = a
                       /\ h[i].due_time > before(i)
                       /\ tx(L, h[i].kind.packet) >= least_tx
                       /\ h[i].due_time =
                              Max(clock', before(i)) + tx(L, h[i].kind.packet)
                 /\ T(a)'.last_tx_sched =
                       IF h = <<>> THEN T(a).last_tx_sched
                       ELSE h[Len(h)].due_time
    /\ PopsAtLink =>
          \A i \in 1..Len(produced') :
              /\ produced'[i].due_time = clock' + L.propagation_delay
              /\ produced'[i].kind = popped'[1].kind
              /\ produced'[i].target =
                    TargetTerminal(popped'[1].kind.packet.dst_addr)
    /\ NoPayloadTie(event_queue')

\* C30 as stated: the packets of a terminal keep their order because each
\* transmit advances last_tx_sched by a positive serialization time.
C30_PositiveSerializationKeepsOrder == [][KeepsOrder(1)]_vars

\* C30: the packets of a terminal reach the other terminal in the order of
\* their transmits: each transmit moves last_tx_sched, by the serialization
\* time of the packet, which may be zero, past every earlier hand-over, the
\* link adds a constant propagation delay, and no two Payload events of one
\* terminal for the same target are due at the same instant.
C30_LinkKeepsOrder == [][KeepsOrder(0)]_vars

\* C30 witness: the sender has just answered an ACK with two packets handed
\* to the link one serialization time apart, while an earlier packet of its
\* own is still on its way.
C30_Witness ==
    /\ PoppedAt(src_addr) /\ PoppedIsAck
    /\ Len(HandOvers(produced)) = 2
    /\ HandOvers(produced)[2].due_time =
          HandOvers(produced)[1].due_time + tx(L, DataPacket)
    /\ HandOvers(produced)[1].due_time > clock + tx(L, DataPacket)
    /\ \E e \in BagToSet(event_queue) :
          /\ e.kind.tag = "Payload" /\ e.kind.packet.src_addr = src_addr
          /\ e \notin {produced[i] : i \in 1..Len(produced)}

\* C27: on a link that does not lose every packet, with the loop running on
\* and the link not deciding against the same packet for ever, the sender
\* eventually has every seqno up to Goal acknowledged; last_acked never
\* decreases, so each lost DATA packet or ACK is made up for by a later
\* retransmission.
C27_EveryPacketAcked == <>(T(src_addr).last_acked >= Goal)

\* C27 witness: a sender with a window of one, on a link that loses
\* packets, has an ACK accepted for a packet that it had to send twice.
C27_Witness ==
    /\ PoppedAt(src_addr) /\ PoppedIsAck
    /\ L.bit_error_rate > 0
    /\ T(src_addr).tx_window = 1
    /\ T(src_addr).last_acked = popped[1].kind.packet.seqno
    /\ T(src_addr).last_acked >= 2
    /\ CopiesIn(T(src_addr).last_acked, dataTx) = 2
    /\ produced # <<>>

\* C31: in a run of a sender with payload_size > 0, every ACK popped for the
\* sender carries a seqno of at most the sender's last_sent, no ACK is ever
\* popped for the receiver, and no step changes the receiver's last_acked
\* or last_sent.
C31_NoPrematureAck ==
    [][T(src_addr).payload_size > 0 =>
          /\ PopsAckAt(src_addr) =>
                popped'[1].kind.packet.seqno <= T(src_addr).last_sent
          /\ ~PopsAckAt(dst_addr)
          /\ T(dst_addr)'.last_acked = T(dst_addr).last_acked
          /\ T(dst_addr)'.last_sent = T(dst_addr).last_sent]_vars

\* C31 witness: the sender, with payload_size > 0, has just accepted the ACK
\* of the last packet of its window, while the receiver, which has taken
\* packets, still has the last_acked and last_sent of its attachment.
C31_Witness ==
    /\ PoppedAt(src_addr) /\ PoppedIsAck
    /\ T(src_addr).payload_size > 0
    /\ T(src_addr).tx_window > 1
    /\ popped[1].kind.packet.seqno = T(src_addr).last_acked
    /\ T(src_addr).last_sent = 2 * T(src_addr).tx_window
    /\ T(dst_addr).last_recv >= T(src_addr).tx_window
    /\ T(dst_addr).last_acked = 0
    /\ T(dst_addr).last_sent = T(dst_addr).tx_window

\* The event e, if it is for a link, is for the link of the network and
\* carries a packet from one end of that link to the other; if it is for a
\* terminal, it is for one of the two terminals.
WellTargeted(e) ==
    IF e.target.tag = "Link"
    THEN /\ e.target.addr = link_addr
         /\ e.kind.tag = "Payload"
         /\ e.kind.packet.src_addr # e.kind.packet.dst_addr
         /\ {e.kind.packet.src_addr, e.kind.packet.dst_addr} =
               {L.src_addr, L.dst_addr}
    ELSE e.target.addr \in TerminalAddrs

\* C32: no Timeout event is ever queued for, or popped at, a link, and every
\* event queued for or popped at the link carries a packet whose src_addr
\* and dst_addr are the two distinct ends of that link; the else branch of
\* AttachedLink::process, which panics, is therefore never entered.
C32_LinkEventsCarryPackets ==
    /\ \A e \in BagToSet(event_queue) : WellTargeted(e)
    /\ \A i \in 1..Len(popped) : WellTargeted(popped[i])
    /\ \A i \in 1..Len(produced) : WellTargeted(produced[i])

\* C32 witness: the link has just passed on an ACK on its way back to the
\* sender, while a DATA packet for the link and a Timeout for the sender
\* are queued.
C32_Witness ==
    /\ popped # <<>> /\ popped[1].target = TargetLink(link_addr)
    /\ popped[1].kind.packet.src_addr = dst_addr
    /\ popped[1].kind.packet.dst_addr = src_addr
    /\ produced # <<>>
    /\ \E e \in BagToSet(event_queue) :
          /\ e.target = TargetLink(link_addr)
          /\ e.kind.packet.src_addr = src_addr
          /\ e.kind.packet.payload_size > 0
    /\ \E e \in BagToSet(event_queue) :
          e.target = TargetTerminal(src_addr) /\ e.kind.tag = "Timeout"

\* The counters of the link in the network net.
CounterOf(net) == get_ref_link_by_addr(net, link_addr).counter

\* C33: no step decreases any of the four counters of the link; after every
\* step the delivered raw and good totals are at most the entered ones, and
\* with bit_error_rate = 0 they are equal to them.
C33_CountersMonotone ==
    [][/\ CounterOf(network').raw_transmitted >= CounterOf(network).raw_transmitted
       /\ CounterOf(network').good_transmitted >= CounterOf(network).good_transmitted
       /\ CounterOf(network').raw_delivered >= CounterOf(network).raw_delivered
       /\ CounterOf(network').good_delivered >= CounterOf(network).good_delivered
       /\ CounterOf(network').raw_delivered <= CounterOf(network').raw_transmitted
       /\ CounterOf(network').good_delivered <= CounterOf(network').good_transmitted
       /\ L.bit_error_rate = 0 =>
             /\ CounterOf(network').raw_delivered = CounterOf(network').raw_transmitted
             /\ CounterOf(network').good_delivered =
                   CounterOf(network').good_transmitted]_vars

\* C33 witness: the link, which has lost packets before, has just passed an
\* ACK on after it passed DATA packets on: its delivered totals have grown
\* and are below the entered ones.
C33_Witness ==
    /\ popped # <<>> /\ popped[1].target = TargetLink(link_addr)
    /\ PoppedIsAck
    /\ produced # <<>>
    /\ L.counter.good_delivered > 0
    /\ L.counter.raw_delivered > L.counter.good_delivered
    /\ L.counter.raw_delivered < L.counter.raw_transmitted
    /\ L.counter.good_delivered < L.counter.good_transmitted

====
